---- MODULE Spec2Model ----
(***************************************************************************)
(* Connector registry and pipeline execution engine of job-hunt            *)
(* (backend/internal/connectors and backend/internal/pipeline).            *)
(*                                                                         *)
(* Strings that the code inspects character by character (pipeline names)  *)
(* are tuples of one-character strings; error values are records, nil      *)
(* being Nil; an error's text is a tuple of the parts fmt puts together.   *)
(* The time stamps of a Result are left out: no code reads them.           *)
(***************************************************************************)
EXTENDS Integers, Sequences, FiniteSets, TLC

VARIABLES
    registry,   \* *Registry built by NewRegistry: [sources, destinations]
    store,      \* Service.store: map from pipeline name to Config
    createErr,  \* the error the last Create call returned (Nil before any)
    listOut,    \* the slice the last List call returned (<<>> before any)
    vp,         \* a standalone ValidateConnectorPair call: [src, dst, err]
    call,       \* a standalone call of a registry or connector method
    mu,         \* Service.mu, the sync.RWMutex that guards Service.store
    req,        \* per request goroutine: its Service call and its position in it
    rpc,        \* per run: position of the goroutine that called Service.Run
    rname,      \* per run: the name argument
    ctxDone,    \* per run: ctx.Done() is closed
    cfg,        \* per run: the Config getConfig returned
    prod,       \* per run: producer goroutine [pc, i, records]
    srcClosed,  \* per run: the channel of produceFakeRecords is closed
    tee,        \* per run: Tee goroutine [pc, record]
    teeClosed,  \* per run: the channel of Tee is closed
    counter,    \* per run: the local counter of Service.Run
    loadErr,    \* per run: what dst.Load returned
    received,   \* per run: the records drainRecords has taken from its channel
    result      \* per run: the Result that Run returned

vars == <<registry, store, createErr, listOut, vp, call, mu, req, rpc, rname,
          ctxDone, cfg, prod, srcClosed, tee, teeClosed, counter, loadErr,
          received, result>>

storeVars == <<store, createErr, listOut>>

runVars == <<rpc, rname, ctxDone, cfg, prod, srcClosed, tee, teeClosed,
             counter, loadErr, received, result>>

----------------------------------------------------------------------------
(* Values *)

SourceType == "source"
DestinationType == "destination"

Nil == [kind |-> "nil"]
Err(parts) == [kind |-> "error", msg |-> parts]
\* error.Error()
ErrorText(e) == e.msg

\* config[key] of a Go map[string]string: the zero value "" when absent
MapGet(config, key) == IF key \in DOMAIN config THEN config[key] ELSE ""

Connector(name, type, description, supportsDDL, maxParallel) ==
    [Name |-> name, Type |-> type, Description |-> description,
     SupportsDDL |-> supportsDDL, MaxParallel |-> maxParallel]

dbFields == <<"host", "port", "user", "password", "database">>
icebergFields == <<"catalog", "table", "warehouse">>

newSimpleSource(name, description, supportsDDL, maxParallel, required, sampleRecords) ==
    [meta |-> Connector(name, SourceType, description, supportsDDL, maxParallel),
     required |-> required,
     sampleRecords |-> sampleRecords]

newSimpleDestination(name, description, supportsDDL, maxParallel, required) ==
    [meta |-> Connector(name, DestinationType, description, supportsDDL, maxParallel),
     required |-> required]

Info(c) == c.meta

\* registerSources / registerDestinations: r.sources[item.Info().Name] = item,
\* in the order of the argument list (a later item replaces an earlier one)
RECURSIVE registerAll(_, _)
registerAll(m, items) ==
    IF items = <<>> THEN m
    ELSE LET item == Head(items)
             name == Info(item).Name
         IN registerAll([k \in DOMAIN m \cup {name} |->
                            IF k = name THEN item ELSE m[k]], Tail(items))

EmptyMap == [k \in {} |-> Nil]

MySQLSampleRecords == 50
PostgresSampleRecords == 50
SQLServerSampleRecords == 50
IcebergSampleRecords == 30

NewRegistry ==
    [sources |-> registerAll(EmptyMap, <<
        newSimpleSource("mysql", "High-speed MySQL binlog reader", TRUE, 8,
                        dbFields, MySQLSampleRecords),
        newSimpleSource("postgres", "Logical replication with parallel snapshot", TRUE, 8,
                        dbFields, PostgresSampleRecords),
        newSimpleSource("sqlserver", "SQL Server CDC with snapshot fallback", TRUE, 4,
                        dbFields, SQLServerSampleRecords),
        newSimpleSource("iceberg", "Snapshot reads over Apache Iceberg metadata", FALSE, 6,
                        icebergFields, IcebergSampleRecords) >>),
     destinations |-> registerAll(EmptyMap, <<
        newSimpleDestination("mysql", "Batch inserts with parallel writers", TRUE, 8, dbFields),
        newSimpleDestination("postgres", "COPY protocol with conflict handling", TRUE, 8, dbFields),
        newSimpleDestination("sqlserver", "Bulk copy optimized for columnstore", TRUE, 4, dbFields) >>)]

\* (Source, error) and (Destination, error) results are records [val, err]
SourceByName(r, name) ==
    IF name \notin DOMAIN r.sources
    THEN [val |-> Nil, err |-> Err(<<"unknown source connector ", name>>)]
    ELSE [val |-> r.sources[name], err |-> Nil]

\* Variant: destinations are looked up in the map of sources
DestinationByNameInSources(r, name) ==
    IF name \notin DOMAIN r.sources
    THEN [val |-> Nil, err |-> Err(<<"unknown destination connector ", name>>)]
    ELSE [val |-> r.sources[name], err |-> Nil]

DestinationByName(r, name) ==
    IF name \notin DOMAIN r.destinations
    THEN [val |-> Nil, err |-> Err(<<"unknown destination connector ", name>>)]
    ELSE [val |-> r.destinations[name], err |-> Nil]

\* Variant: any destination named "iceberg" is refused
ValidateConnectorPairAnyIceberg(s, d) ==
    IF s.Type # SourceType \/ d.Type # DestinationType
    THEN Err(<<"invalid connector pairing">>)
    ELSE IF d.Name = "iceberg"
    THEN Err(<<"iceberg cannot be a destination">>)
    ELSE Nil

ValidateConnectorPair(s, d) ==
    IF s.Type # SourceType \/ d.Type # DestinationType
    THEN Err(<<"invalid connector pairing">>)
    ELSE IF s.Name = d.Name /\ s.Name = "iceberg"
    THEN Err(<<"iceberg cannot be a destination">>)
    ELSE Nil

\* Variant: a key that is present with the value "" passes
RECURSIVE ensureRequiredFieldsPresent(_, _)
ensureRequiredFieldsPresent(required, config) ==
    IF required = <<>> THEN Nil
    ELSE IF Head(required) \notin DOMAIN config
    THEN Err(<<"missing required config ", Head(required)>>)
    ELSE ensureRequiredFieldsPresent(Tail(required), config)

RECURSIVE ensureRequiredFields(_, _)
ensureRequiredFields(required, config) ==
    IF required = <<>> THEN Nil
    ELSE IF MapGet(config, Head(required)) = ""
    THEN Err(<<"missing required config ", Head(required)>>)
    ELSE ensureRequiredFields(Tail(required), config)

\* simpleSource.Validate / simpleDestination.Validate
Validate(c, config) == ensureRequiredFields(c.required, config)

----------------------------------------------------------------------------
(* Pipeline service: names, Config, Create, List *)

Whitespace == {" "}

\* strings.TrimSpace: drop leading and trailing white space
RECURSIVE TrimLeft(_)
TrimLeft(s) ==
    IF s # <<>> /\ Head(s) \in Whitespace THEN TrimLeft(Tail(s)) ELSE s

RECURSIVE TrimRight(_)
TrimRight(s) ==
    IF s # <<>> /\ s[Len(s)] \in Whitespace
    THEN TrimRight(SubSeq(s, 1, Len(s) - 1)) ELSE s

TrimSpace(s) == TrimRight(TrimLeft(s))

validatePipelineName(name) ==
    IF TrimSpace(name) = <<>> THEN Err(<<"pipeline name is required">>) ELSE Nil

Config(name, sourceType, sourceConfig, destType, destConfig) ==
    [Name |-> name, SourceType |-> sourceType, SourceConfig |-> sourceConfig,
     DestType |-> destType, DestConfig |-> destConfig]

\* Service.connectorsFor: (Source, Destination, error) as [src, dst, err]
connectorsFor(r, c) ==
    LET s == SourceByName(r, c.SourceType)
        d == DestinationByName(r, c.DestType)
    IN IF s.err # Nil THEN [src |-> Nil, dst |-> Nil, err |-> s.err]
       ELSE IF d.err # Nil THEN [src |-> Nil, dst |-> Nil, err |-> d.err]
       ELSE LET e == ValidateConnectorPair(Info(s.val), Info(d.val))
            IN IF e # Nil THEN [src |-> Nil, dst |-> Nil, err |-> e]
               ELSE [src |-> s.val, dst |-> d.val, err |-> Nil]

\* Variant: each config is validated as soon as its connector is resolved
CreateCheckEager(r, c) ==
    IF validatePipelineName(c.Name) # Nil THEN validatePipelineName(c.Name)
    ELSE LET s == SourceByName(r, c.SourceType)
             d == DestinationByName(r, c.DestType)
         IN IF s.err # Nil THEN s.err
            ELSE IF Validate(s.val, c.SourceConfig) # Nil
            THEN Validate(s.val, c.SourceConfig)
            ELSE IF d.err # Nil THEN d.err
            ELSE IF Validate(d.val, c.DestConfig) # Nil
            THEN Validate(d.val, c.DestConfig)
            ELSE ValidateConnectorPair(Info(s.val), Info(d.val))

\* Variant: the destination's config is not validated
CreateCheckNoDest(r, c) ==
    IF validatePipelineName(c.Name) # Nil THEN validatePipelineName(c.Name)
    ELSE LET cf == connectorsFor(r, c)
         IN IF cf.err # Nil THEN cf.err
            ELSE Validate(cf.src, c.SourceConfig)

\* The checks of Service.Create that come before the insert: the error the
\* call returns, Nil when the definition is to be stored.
CreateCheck(r, c) ==
    IF validatePipelineName(c.Name) # Nil THEN validatePipelineName(c.Name)
    ELSE LET cf == connectorsFor(r, c)
         IN IF cf.err # Nil THEN cf.err
            ELSE IF Validate(cf.src, c.SourceConfig) # Nil
            THEN Validate(cf.src, c.SourceConfig)
            ELSE Validate(cf.dst, c.DestConfig)

\* Variant: the key is the trimmed name
StorePutTrimmed(st, c) ==
    [k \in DOMAIN st \cup {TrimSpace(c.Name)} |->
        IF k = TrimSpace(c.Name) THEN c ELSE st[k]]

\* Variant: a name already in the map keeps its entry
StorePutIfAbsent(st, c) ==
    [k \in DOMAIN st \cup {c.Name} |-> IF k \in DOMAIN st THEN st[k] ELSE c]

\* s.store[cfg.Name] = cfg
StorePut(st, c) ==
    [k \in DOMAIN st \cup {c.Name} |-> IF k = c.Name THEN c ELSE st[k]]


\* Byte order of Go's string comparison, for the characters names are made of
CharCode(ch) == IF ch = " " THEN 32 ELSE IF ch = "a" THEN 97 ELSE 98

\* a < b on strings
RECURSIVE StrLess(_, _)
StrLess(a, b) ==
    IF b = <<>> THEN FALSE
    ELSE IF a = <<>> THEN TRUE
    ELSE IF CharCode(Head(a)) # CharCode(Head(b))
    THEN CharCode(Head(a)) < CharCode(Head(b))
    ELSE StrLess(Tail(a), Tail(b))

\* sort.Slice(result, func(i, j) { return result[i].Name < result[j].Name }):
\* insertion of each element before the first one it is less than
RECURSIVE InsertByName(_, _)
InsertByName(sorted, c) ==
    IF sorted = <<>> THEN <<c>>
    ELSE IF StrLess(c.Name, Head(sorted).Name) THEN <<c>> \o sorted
    ELSE <<Head(sorted)>> \o InsertByName(Tail(sorted), c)

\* Variant: the slice is left in the order of the map range
SortByNameNone(slice) == slice

RECURSIVE SortByName(_)
SortByName(slice) ==
    IF slice = <<>> THEN <<>>
    ELSE InsertByName(SortByName(Tail(slice)), Head(slice))

\* The orders in which `for _, cfg := range s.store` may visit the map
RangeOrders(st) ==
    {o \in [1..Cardinality(DOMAIN st) -> DOMAIN st] :
        \A i, j \in DOMAIN o : i # j => o[i] # o[j]}

\* Service.List for one visiting order of the map
List(st, order) == SortByName([i \in DOMAIN order |-> st[order[i]]])

----------------------------------------------------------------------------
(* Inputs *)

NameA == <<"a">>
NameSpaceA == <<" ", "a">>
NameBlank == <<" ">>

CfgDb == [k \in {"host", "port", "user", "password", "database"} |-> "v"]
CfgDbOther == [k \in {"host", "port", "user", "password", "database"} |->
                  IF k = "host" THEN "w" ELSE "v"]
CfgDbNoPassword == [k \in {"host", "port", "user", "database"} |-> "v"]
CfgDbEmptyDatabase == [k \in {"host", "port", "user", "password", "database"} |->
                          IF k = "database" THEN "" ELSE "v"]
CfgIceberg == [k \in {"catalog", "table", "warehouse"} |-> "v"]

\* Blank names: at most MaxBlank spaces and nothing else
MaxBlank == 1

Pad(k) == [i \in 1..k |-> " "]

StoreNames == {NameA, NameSpaceA} \cup {Pad(k) : k \in 0..MaxBlank}

\* Definitions offered to Create when the store itself is examined
StoreInputs ==
    {Config(n, st, sc, dt, dc) :
        n \in StoreNames,
        st \in {"mysql", "iceberg", "oracle"},
        sc \in {CfgDb, CfgDbOther, CfgDbNoPassword, CfgIceberg},
        dt \in {"postgres", "iceberg"},
        dc \in {CfgDb, CfgDbEmptyDatabase}}

\* Definitions offered to Create while a run is examined
RunInputs ==
    {Config(NameA, "mysql", CfgDb, "postgres", CfgDb),
     Config(NameA, "iceberg", CfgIceberg, "mysql", CfgDb),
     Config(NameSpaceA, "sqlserver", CfgDb, "sqlserver", CfgDb),
     Config(NameSpaceA, "postgres", CfgDb, "mysql", CfgDb),
     Config(NameBlank, "mysql", CfgDb, "postgres", CfgDb)}

\* Names offered to Run
RunNames == {NameA, NameSpaceA}

Runs == {"r1", "r2"}
MainRuns == {"r1"}

----------------------------------------------------------------------------
(* Service.Create and Service.List *)

\* Variant: the insert comes before the checks
CreateInsertFirst(c) ==
    /\ createErr' = CreateCheck(registry, c)
    /\ store' = StorePut(store, c)
    /\ UNCHANGED <<registry, listOut, vp>>
    /\ UNCHANGED runVars
    /\ UNCHANGED <<call, mu, req>>

\* Service.Create(cfg): every check, then the insert under s.mu.Lock()
Create(c) ==
    /\ createErr' = CreateCheck(registry, c)
    /\ store' = IF CreateCheck(registry, c) = Nil THEN StorePut(store, c) ELSE store
    /\ UNCHANGED <<registry, listOut, vp>>
    /\ UNCHANGED runVars
    /\ UNCHANGED <<call, mu, req>>

\* Variant: the entries are taken out of the map as they are listed
ListCallDrain ==
    /\ \E order \in RangeOrders(store) : listOut' = List(store, order)
    /\ store' = EmptyMap
    /\ UNCHANGED <<registry, createErr, vp>>
    /\ UNCHANGED runVars
    /\ UNCHANGED <<call, mu, req>>

\* Service.List()
ListCall ==
    /\ \E order \in RangeOrders(store) : listOut' = List(store, order)
    /\ UNCHANGED <<registry, store, createErr, vp>>
    /\ UNCHANGED runVars
    /\ UNCHANGED <<call, mu, req>>

----------------------------------------------------------------------------
(* Service.Run: the caller's goroutine, the producer goroutine of          *)
(* produceFakeRecords and the goroutine of Tee.  Both channels are         *)
(* unbuffered: a send and its receive are one step of both goroutines.     *)

NoConfig == [kind |-> "none"]
NoRecord == [kind |-> "none"]
NoResult == [kind |-> "none"]
NoProducer == [pc |-> "none", i |-> 0, records |-> 0]
NoTee == [pc |-> "none", record |-> NoRecord]

\* Variant: ids count from 0
RecordFromZero(i) == [id |-> i, payload |-> <<"record-", i>>]

\* map[string]any{"id": i + 1, "payload": fmt.Sprintf("record-%d", i+1)}
Record(i) == [id |-> i + 1, payload |-> <<"record-", i + 1>>]

\* context.Canceled, what ctx.Err() returns once Done is closed
ContextCanceled == Err(<<"context canceled">>)

\* newResult(name) followed by result.finish(records, runErr)
Finish(name, records, runErr) ==
    [PipelineName |-> name,
     Records |-> records,
     Error |-> IF runErr # Nil THEN ErrorText(runErr) ELSE <<>>]

\* Variant: the loop runs while i <= records
ProducerAtInclusive(i, records) ==
    [pc |-> IF i <= records THEN "select" ELSE "done", i |-> i, records |-> records]

\* Position of the producer at the head of `for i := 0; i < records; i++`:
\* in the select, or past the loop, where the deferred close(out) runs
ProducerAt(i, records) ==
    [pc |-> IF i < records THEN "select" ELSE "done", i |-> i, records |-> records]

\* The caller cancels the context (or the request ends)
Cancel(r) ==
    /\ ~ctxDone[r]
    /\ ctxDone' = [ctxDone EXCEPT ![r] = TRUE]
    /\ UNCHANGED <<registry, vp, rpc, rname, cfg, prod, srcClosed, tee, teeClosed,
                   counter, loadErr, received, result>>
    /\ UNCHANGED storeVars
    /\ UNCHANGED <<call, mu, req>>

\* Variant: ok of getConfig is not looked at, and the zero Config is resolved
RunLookupNoCheck(r, name) ==
    /\ rpc[r] = "idle"
    /\ rname' = [rname EXCEPT ![r] = name]
    /\ cfg' = [cfg EXCEPT ![r] = IF name \in DOMAIN store THEN store[name]
                                 ELSE Config(<<>>, "", EmptyMap, "", EmptyMap)]
    /\ rpc' = [rpc EXCEPT ![r] = "resolve"]
    /\ UNCHANGED <<registry, vp, ctxDone, prod, srcClosed, tee, teeClosed,
                   counter, loadErr, received, result>>
    /\ UNCHANGED storeVars
    /\ UNCHANGED <<call, mu, req>>

\* Run, lines 471-476: newResult, getConfig under the read lock, not found
RunLookup(r, name) ==
    /\ rpc[r] = "idle"
    /\ rname' = [rname EXCEPT ![r] = name]
    /\ IF name \in DOMAIN store
       THEN /\ cfg' = [cfg EXCEPT ![r] = store[name]]
            /\ rpc' = [rpc EXCEPT ![r] = "resolve"]
            /\ UNCHANGED result
       ELSE /\ result' = [result EXCEPT ![r] =
                            Finish(name, 0, Err(<<"pipeline not found">>))]
            /\ rpc' = [rpc EXCEPT ![r] = "done"]
            /\ UNCHANGED cfg
    /\ UNCHANGED <<registry, vp, ctxDone, prod, srcClosed, tee, teeClosed,
                   counter, loadErr, received>>
    /\ UNCHANGED storeVars
    /\ UNCHANGED <<call, mu, req>>

\* Variant: the source is looked up among the destinations
RunResolveWrongMap(r) ==
    /\ rpc[r] = "resolve"
    /\ LET d == DestinationByName(registry, cfg[r].SourceType)
       IN IF d.err # Nil
          THEN /\ result' = [result EXCEPT ![r] = Finish(rname[r], 0, d.err)]
               /\ rpc' = [rpc EXCEPT ![r] = "done"]
          ELSE /\ rpc' = [rpc EXCEPT ![r] = "extract"]
               /\ UNCHANGED result
    /\ UNCHANGED <<registry, vp, rname, ctxDone, cfg, prod, srcClosed, tee,
                   teeClosed, counter, loadErr, received>>
    /\ UNCHANGED storeVars
    /\ UNCHANGED <<call, mu, req>>

\* Run, lines 477-481: connectorsFor
RunResolve(r) ==
    /\ rpc[r] = "resolve"
    /\ LET cf == connectorsFor(registry, cfg[r])
       IN IF cf.err # Nil
          THEN /\ result' = [result EXCEPT ![r] = Finish(rname[r], 0, cf.err)]
               /\ rpc' = [rpc EXCEPT ![r] = "done"]
          ELSE /\ rpc' = [rpc EXCEPT ![r] = "extract"]
               /\ UNCHANGED result
    /\ UNCHANGED <<registry, vp, rname, ctxDone, cfg, prod, srcClosed, tee,
                   teeClosed, counter, loadErr, received>>
    /\ UNCHANGED storeVars
    /\ UNCHANGED <<call, mu, req>>

\* Variant: the definition is read from the store again
RunExtractFromStore(r) ==
    /\ rpc[r] = "extract"
    /\ LET now == store[rname[r]]
           source == connectorsFor(registry, now).src
           e == Validate(source, now.SourceConfig)
       IN IF e # Nil
          THEN /\ result' = [result EXCEPT ![r] = Finish(rname[r], 0, e)]
               /\ rpc' = [rpc EXCEPT ![r] = "done"]
               /\ UNCHANGED <<prod, srcClosed>>
          ELSE /\ prod' = [prod EXCEPT ![r] = ProducerAt(0, source.sampleRecords)]
               /\ srcClosed' = [srcClosed EXCEPT ![r] = ~(0 < source.sampleRecords)]
               /\ rpc' = [rpc EXCEPT ![r] = "tee"]
               /\ UNCHANGED result
    /\ UNCHANGED <<registry, vp, rname, ctxDone, cfg, tee, teeClosed, counter,
                   loadErr, received>>
    /\ UNCHANGED storeVars
    /\ UNCHANGED <<call, mu, req>>

\* Variant: the source validates the config of the destination
RunExtractDestConfig(r) ==
    /\ rpc[r] = "extract"
    /\ LET source == connectorsFor(registry, cfg[r]).src
           e == Validate(source, cfg[r].DestConfig)
       IN IF e # Nil
          THEN /\ result' = [result EXCEPT ![r] = Finish(rname[r], 0, e)]
               /\ rpc' = [rpc EXCEPT ![r] = "done"]
               /\ UNCHANGED <<prod, srcClosed>>
          ELSE /\ prod' = [prod EXCEPT ![r] = ProducerAt(0, source.sampleRecords)]
               /\ srcClosed' = [srcClosed EXCEPT ![r] = ~(0 < source.sampleRecords)]
               /\ rpc' = [rpc EXCEPT ![r] = "tee"]
               /\ UNCHANGED result
    /\ UNCHANGED <<registry, vp, rname, ctxDone, cfg, tee, teeClosed, counter,
                   loadErr, received>>
    /\ UNCHANGED storeVars
    /\ UNCHANGED <<call, mu, req>>

\* Run, lines 482-486: src.Extract validates, then produceFakeRecords makes
\* the channel and starts the producer
RunExtract(r) ==
    /\ rpc[r] = "extract"
    /\ LET source == connectorsFor(registry, cfg[r]).src
           e == Validate(source, cfg[r].SourceConfig)
       IN IF e # Nil
          THEN /\ result' = [result EXCEPT ![r] = Finish(rname[r], 0, e)]
               /\ rpc' = [rpc EXCEPT ![r] = "done"]
               /\ UNCHANGED <<prod, srcClosed>>
          ELSE /\ prod' = [prod EXCEPT ![r] = ProducerAt(0, source.sampleRecords)]
               /\ srcClosed' = [srcClosed EXCEPT ![r] = ~(0 < source.sampleRecords)]
               /\ rpc' = [rpc EXCEPT ![r] = "tee"]
               /\ UNCHANGED result
    /\ UNCHANGED <<registry, vp, rname, ctxDone, cfg, tee, teeClosed, counter,
                   loadErr, received>>
    /\ UNCHANGED storeVars
    /\ UNCHANGED <<call, mu, req>>

\* Run, lines 487-488: counter := 0; Tee makes its channel and starts its
\* goroutine; dst.Load is entered
RunTee(r) ==
    /\ rpc[r] = "tee"
    /\ counter' = [counter EXCEPT ![r] = 0]
    /\ tee' = [tee EXCEPT ![r] = [pc |-> "range", record |-> NoRecord]]
    /\ rpc' = [rpc EXCEPT ![r] = "load"]
    /\ UNCHANGED <<registry, vp, rname, ctxDone, cfg, prod, srcClosed, teeClosed,
                   loadErr, received, result>>
    /\ UNCHANGED storeVars
    /\ UNCHANGED <<call, mu, req>>

\* simpleDestination.Load, lines 185-188: validate, then drainRecords
LoadValidate(r) ==
    /\ rpc[r] = "load"
    /\ LET dest == connectorsFor(registry, cfg[r]).dst
           e == Validate(dest, cfg[r].DestConfig)
       IN IF e # Nil
          THEN /\ loadErr' = [loadErr EXCEPT ![r] = e]
               /\ rpc' = [rpc EXCEPT ![r] = "finish"]
          ELSE /\ rpc' = [rpc EXCEPT ![r] = "drain"]
               /\ UNCHANGED loadErr
    /\ UNCHANGED <<registry, vp, rname, ctxDone, cfg, prod, srcClosed, tee,
                   teeClosed, counter, received, result>>
    /\ UNCHANGED storeVars
    /\ UNCHANGED <<call, mu, req>>

\* produceFakeRecords, line 208 with Tee, line 546: the producer's send is
\* taken by the range of Tee.  The select may take this case also when
\* ctx.Done() is ready.
Handoff(r) ==
    /\ prod[r].pc = "select"
    /\ tee[r].pc = "range"
    /\ prod' = [prod EXCEPT ![r].pc = "sleep"]
    /\ tee' = [tee EXCEPT ![r] = [pc |-> "fn", record |-> Record(prod[r].i)]]
    /\ UNCHANGED <<registry, vp, rpc, rname, ctxDone, cfg, srcClosed, teeClosed,
                   counter, loadErr, received, result>>
    /\ UNCHANGED storeVars
    /\ UNCHANGED <<call, mu, req>>

\* produceFakeRecords, lines 206-207: case <-ctx.Done(): return, and the
\* deferred close(out)
ProducerCancel(r) ==
    /\ prod[r].pc = "select"
    /\ ctxDone[r]
    /\ prod' = [prod EXCEPT ![r].pc = "done"]
    /\ srcClosed' = [srcClosed EXCEPT ![r] = TRUE]
    /\ UNCHANGED <<registry, vp, rpc, rname, ctxDone, cfg, tee, teeClosed,
                   counter, loadErr, received, result>>
    /\ UNCHANGED storeVars
    /\ UNCHANGED <<call, mu, req>>

\* produceFakeRecords, line 209 and the loop header: the sleep ends, i++,
\* and either the next select or the end of the loop and close(out)
ProducerWake(r) ==
    /\ prod[r].pc = "sleep"
    /\ prod' = [prod EXCEPT ![r] = ProducerAt(prod[r].i + 1, prod[r].records)]
    /\ srcClosed' = [srcClosed EXCEPT ![r] = ~(prod[r].i + 1 < prod[r].records)]
    /\ UNCHANGED <<registry, vp, rpc, rname, ctxDone, cfg, tee, teeClosed,
                   counter, loadErr, received, result>>
    /\ UNCHANGED storeVars
    /\ UNCHANGED <<call, mu, req>>

\* Variant: the record is counted and not sent on
TeeFnDrop(r) ==
    /\ tee[r].pc = "fn"
    /\ counter' = [counter EXCEPT ![r] = counter[r] + 1]
    /\ tee' = [tee EXCEPT ![r] = [pc |-> "range", record |-> NoRecord]]
    /\ UNCHANGED <<registry, vp, rpc, rname, ctxDone, cfg, prod, srcClosed,
                   teeClosed, loadErr, received, result>>
    /\ UNCHANGED storeVars
    /\ UNCHANGED <<call, mu, req>>

\* Variant: one counter is shared by all runs
TeeFnShared(r) ==
    /\ tee[r].pc = "fn"
    /\ counter' = [q \in Runs |-> counter[q] + 1]
    /\ tee' = [tee EXCEPT ![r].pc = "send"]
    /\ UNCHANGED <<registry, vp, rpc, rname, ctxDone, cfg, prod, srcClosed,
                   teeClosed, loadErr, received, result>>
    /\ UNCHANGED storeVars
    /\ UNCHANGED <<call, mu, req>>

\* Tee, line 547: fn(record), which is counter++
TeeFn(r) ==
    /\ tee[r].pc = "fn"
    /\ counter' = [counter EXCEPT ![r] = counter[r] + 1]
    /\ tee' = [tee EXCEPT ![r].pc = "send"]
    /\ UNCHANGED <<registry, vp, rpc, rname, ctxDone, cfg, prod, srcClosed,
                   teeClosed, loadErr, received, result>>
    /\ UNCHANGED storeVars
    /\ UNCHANGED <<call, mu, req>>

\* Variant: after the send the goroutine sends the record again
ForwardResend(r) ==
    /\ tee[r].pc = "send"
    /\ rpc[r] = "drain"
    /\ received' = [received EXCEPT ![r] = Append(received[r], tee[r].record)]
    /\ UNCHANGED <<registry, vp, rpc, rname, ctxDone, cfg, prod, srcClosed, tee,
                   teeClosed, counter, loadErr, result>>
    /\ UNCHANGED storeVars
    /\ UNCHANGED <<call, mu, req>>

\* Tee, line 548 with drainRecords, line 221: out <- record is taken by the
\* select of drainRecords, which loops.  The select may take this case also
\* when ctx.Done() is ready.
Forward(r) ==
    /\ tee[r].pc = "send"
    /\ rpc[r] = "drain"
    /\ received' = [received EXCEPT ![r] = Append(received[r], tee[r].record)]
    /\ tee' = [tee EXCEPT ![r] = [pc |-> "range", record |-> NoRecord]]
    /\ UNCHANGED <<registry, vp, rpc, rname, ctxDone, cfg, prod, srcClosed,
                   teeClosed, counter, loadErr, result>>
    /\ UNCHANGED storeVars
    /\ UNCHANGED <<call, mu, req>>

\* Variant: the goroutine ends without close(out)
TeeCloseNoClose(r) ==
    /\ tee[r].pc = "range"
    /\ srcClosed[r]
    /\ tee' = [tee EXCEPT ![r].pc = "done"]
    /\ UNCHANGED <<registry, vp, rpc, rname, ctxDone, cfg, prod, srcClosed,
                   teeClosed, counter, loadErr, received, result>>
    /\ UNCHANGED storeVars
    /\ UNCHANGED <<call, mu, req>>

\* Tee, lines 545-546: the range ends on the closed channel; close(out)
TeeClose(r) ==
    /\ tee[r].pc = "range"
    /\ srcClosed[r]
    /\ tee' = [tee EXCEPT ![r].pc = "done"]
    /\ teeClosed' = [teeClosed EXCEPT ![r] = TRUE]
    /\ UNCHANGED <<registry, vp, rpc, rname, ctxDone, cfg, prod, srcClosed,
                   counter, loadErr, received, result>>
    /\ UNCHANGED storeVars
    /\ UNCHANGED <<call, mu, req>>

\* drainRecords, lines 219-220: case <-ctx.Done(): return ctx.Err()
DrainCancel(r) ==
    /\ rpc[r] = "drain"
    /\ ctxDone[r]
    /\ loadErr' = [loadErr EXCEPT ![r] = ContextCanceled]
    /\ rpc' = [rpc EXCEPT ![r] = "finish"]
    /\ UNCHANGED <<registry, vp, rname, ctxDone, cfg, prod, srcClosed, tee,
                   teeClosed, counter, received, result>>
    /\ UNCHANGED storeVars
    /\ UNCHANGED <<call, mu, req>>

\* Variant: nil is returned when a record is received, ok not looked at
DrainClosedOnRecord(r) ==
    /\ rpc[r] = "drain"
    /\ teeClosed[r] \/ tee[r].pc = "send"
    /\ IF teeClosed[r]
       THEN UNCHANGED <<received, tee>>
       ELSE /\ received' = [received EXCEPT ![r] = Append(received[r], tee[r].record)]
            /\ tee' = [tee EXCEPT ![r] = [pc |-> "range", record |-> NoRecord]]
    /\ loadErr' = [loadErr EXCEPT ![r] = Nil]
    /\ rpc' = [rpc EXCEPT ![r] = "finish"]
    /\ UNCHANGED <<registry, vp, rname, ctxDone, cfg, prod, srcClosed,
                   teeClosed, counter, result>>
    /\ UNCHANGED storeVars
    /\ UNCHANGED <<call, mu, req>>

\* drainRecords, lines 221-224: the channel is closed, return nil.  The
\* select may take this case also when ctx.Done() is ready.
DrainClosed(r) ==
    /\ rpc[r] = "drain"
    /\ teeClosed[r]
    /\ loadErr' = [loadErr EXCEPT ![r] = Nil]
    /\ rpc' = [rpc EXCEPT ![r] = "finish"]
    /\ UNCHANGED <<registry, vp, rname, ctxDone, cfg, prod, srcClosed, tee,
                   teeClosed, counter, received, result>>
    /\ UNCHANGED storeVars
    /\ UNCHANGED <<call, mu, req>>

\* Run, lines 491-492: result.finish(counter, loadErr) reads the counter
RunFinish(r) ==
    /\ rpc[r] = "finish"
    /\ result' = [result EXCEPT ![r] = Finish(rname[r], counter[r], loadErr[r])]
    /\ rpc' = [rpc EXCEPT ![r] = "done"]
    /\ UNCHANGED <<registry, vp, rname, ctxDone, cfg, prod, srcClosed, tee,
                   teeClosed, counter, loadErr, received>>
    /\ UNCHANGED storeVars
    /\ UNCHANGED <<call, mu, req>>

----------------------------------------------------------------------------
(* Specifications *)

NoPair == [src |-> Nil, dst |-> Nil, err |-> Nil]
NoCall == [fn |-> "none"]
NoRequest == [op |-> "none", pc |-> "idle"]
Requests == {"q1", "q2", "q3"}

\* sync.RWMutex: the goroutine that has announced itself in Lock and holds the
\* lock once the readers are gone, the goroutines that hold the read lock,
\* and the goroutines blocked in RLock behind a writer
Unlocked == [writer |-> "none", readers |-> {}, parked |-> {}]

\* No method is called on its own, and no request is being served
InitCalls ==
    /\ call = NoCall
    /\ mu = Unlocked
    /\ req = [q \in Requests |-> NoRequest]

\* main(): NewRegistry and NewService
InitService ==
    /\ registry = NewRegistry
    /\ store = EmptyMap
    /\ createErr = Nil
    /\ listOut = <<>>

\* No run has been asked for
InitRuns ==
    /\ rpc = [r \in Runs |-> "idle"]
    /\ rname = [r \in Runs |-> <<>>]
    /\ ctxDone = [r \in Runs |-> FALSE]
    /\ cfg = [r \in Runs |-> NoConfig]
    /\ prod = [r \in Runs |-> NoProducer]
    /\ srcClosed = [r \in Runs |-> FALSE]
    /\ tee = [r \in Runs |-> NoTee]
    /\ teeClosed = [r \in Runs |-> FALSE]
    /\ counter = [r \in Runs |-> 0]
    /\ loadErr = [r \in Runs |-> Nil]
    /\ received = [r \in Runs |-> <<>>]
    /\ result = [r \in Runs |-> NoResult]

Init ==
    /\ InitService
    /\ vp = NoPair
    /\ InitCalls
    /\ InitRuns

\* The goroutine that called Run
CallerStep(r) ==
    \/ \E name \in RunNames : RunLookup(r, name)
    \/ RunResolve(r)
    \/ RunExtract(r)
    \/ RunTee(r)
    \/ LoadValidate(r)
    \/ Forward(r)
    \/ DrainCancel(r)
    \/ DrainClosed(r)
    \/ RunFinish(r)

ProducerStep(r) == Handoff(r) \/ ProducerCancel(r) \/ ProducerWake(r)

TeeStep(r) == Handoff(r) \/ TeeFn(r) \/ Forward(r) \/ TeeClose(r)

\* One run of a pipeline while definitions are created
Next ==
    \/ \E c \in RunInputs : Create(c)
    \/ \E r \in MainRuns : Cancel(r)
    \/ \E r \in MainRuns, name \in RunNames : RunLookup(r, name)
    \/ \E r \in MainRuns : RunResolve(r)
    \/ \E r \in MainRuns : RunExtract(r)
    \/ \E r \in MainRuns : RunTee(r)
    \/ \E r \in MainRuns : LoadValidate(r)
    \/ \E r \in MainRuns : Handoff(r)
    \/ \E r \in MainRuns : ProducerCancel(r)
    \/ \E r \in MainRuns : ProducerWake(r)
    \/ \E r \in MainRuns : TeeFn(r)
    \/ \E r \in MainRuns : Forward(r)
    \/ \E r \in MainRuns : TeeClose(r)
    \/ \E r \in MainRuns : DrainCancel(r)
    \/ \E r \in MainRuns : DrainClosed(r)
    \/ \E r \in MainRuns : RunFinish(r)

Spec == Init /\ [][Next]_vars

\* Create and List calls alone, over the whole of StoreInputs
NextStore ==
    \/ \E c \in StoreInputs : Create(c)
    \/ ListCall

SpecStore == Init /\ [][NextStore]_vars

\* Create calls alone, over the whole of StoreInputs
NextCreate == \E c \in StoreInputs : Create(c)

SpecCreate == Init /\ [][NextCreate]_vars

\* Two requests run the same pipeline at once; the second may be cancelled
SharedInput == Config(NameA, "iceberg", CfgIceberg, "mysql", CfgDb)
CancelledRuns == {"r2"}

NextTwoRuns ==
    \/ Create(SharedInput)
    \/ \E r \in CancelledRuns : Cancel(r)
    \/ \E r \in Runs : RunLookup(r, SharedInput.Name)
    \/ \E r \in Runs : RunResolve(r)
    \/ \E r \in Runs : RunExtract(r)
    \/ \E r \in Runs : RunTee(r)
    \/ \E r \in Runs : LoadValidate(r)
    \/ \E r \in Runs : Handoff(r)
    \/ \E r \in Runs : ProducerCancel(r)
    \/ \E r \in Runs : ProducerWake(r)
    \/ \E r \in Runs : TeeFn(r)
    \/ \E r \in Runs : Forward(r)
    \/ \E r \in Runs : TeeClose(r)
    \/ \E r \in Runs : DrainCancel(r)
    \/ \E r \in Runs : DrainClosed(r)
    \/ \E r \in Runs : RunFinish(r)

SpecTwoRuns == Init /\ [][NextTwoRuns]_vars

----------------------------------------------------------------------------
(* ValidateConnectorPair called on its own, on any two descriptors *)

Pending == [kind |-> "pending"]

Descriptors ==
    {Connector(n, t, "d", TRUE, 1) :
        n \in {"mysql", "postgres", "iceberg", "oracle"},
        t \in {SourceType, DestinationType, ""}}

InitPair ==
    /\ InitService
    /\ vp \in [src : Descriptors, dst : Descriptors, err : {Pending}]
    /\ InitCalls
    /\ InitRuns

ValidatePairCall ==
    /\ vp.err = Pending
    /\ vp' = [vp EXCEPT !.err = ValidateConnectorPair(vp.src, vp.dst)]
    /\ UNCHANGED <<registry, store, createErr, listOut>>
    /\ UNCHANGED runVars
    /\ UNCHANGED <<call, mu, req>>

NextPair == ValidatePairCall

SpecPair == InitPair /\ [][NextPair]_vars

----------------------------------------------------------------------------
(* Methods of the registry and of its connectors called on their own *)

ConfigKeys ==
    {"host", "port", "user", "password", "database", "catalog", "table", "warehouse"}
FieldValues == {"", "v"}

\* Every map[string]string over ConfigKeys and FieldValues
ValidateConfigs == UNION {[keys -> FieldValues] : keys \in SUBSET ConfigKeys}

\* The connectors of a registry, by side and name
Capabilities(r) ==
    {<<"source", n>> : n \in DOMAIN r.sources}
        \cup {<<"destination", n>> : n \in DOMAIN r.destinations}

CapabilityOf(r, side, name) ==
    IF side = "source" THEN r.sources[name] ELSE r.destinations[name]

\* Variant: the second loop ranges over the sources again
AvailableSourcesTwice(r, srcOrder, dstOrder) ==
    [i \in DOMAIN srcOrder |-> Info(r.sources[srcOrder[i]])]
        \o [i \in DOMAIN dstOrder |-> Info(r.sources[dstOrder[i]])]

\* Registry.Available for one visiting order of each of the two maps
Available(r, srcOrder, dstOrder) ==
    [i \in DOMAIN srcOrder |-> Info(r.sources[srcOrder[i]])]
        \o [i \in DOMAIN dstOrder |-> Info(r.destinations[dstOrder[i]])]

AvailableCalls ==
    {[fn |-> "Available", srcOrder |-> so, dstOrder |-> do, out |-> Pending] :
        so \in RangeOrders(NewRegistry.sources),
        do \in RangeOrders(NewRegistry.destinations)}

ValidateCalls ==
    {[fn |-> "Validate", side |-> cap[1], name |-> cap[2], config |-> config,
      out |-> Pending] : cap \in Capabilities(NewRegistry), config \in ValidateConfigs}

\* Configs offered to Extract and Load called on their own
StageConfigs == {CfgDb, CfgDbNoPassword, CfgDbEmptyDatabase, CfgIceberg, EmptyMap}

\* Longest channel handed to a Load call
MaxSupplied == 2

\* The run whose context, producer and channel a call on its own uses
CallRun == "r1"

\* The channel produceFakeRecords returns
Channel == [kind |-> "channel"]

ExtractCalls ==
    {[fn |-> "Extract", name |-> n, config |-> config, pc |-> "call",
      out |-> Pending, got |-> <<>>] :
        n \in DOMAIN NewRegistry.sources, config \in StageConfigs}

LoadCalls ==
    {[fn |-> "Load", name |-> n, config |-> config, supplied |-> k, pc |-> "supply",
      out |-> Pending, got |-> <<>>] :
        n \in DOMAIN NewRegistry.destinations, config \in StageConfigs,
        k \in 0..MaxSupplied}

\* Names offered to SourceByName and DestinationByName
LookupNames == {"mysql", "postgres", "sqlserver", "iceberg", "oracle", "Iceberg", ""}

LookupCalls ==
    {[fn |-> f, name |-> n, out |-> Pending] :
        f \in {"SourceByName", "DestinationByName"}, n \in LookupNames}

InitMethods ==
    /\ InitService
    /\ vp = NoPair
    /\ call \in ValidateCalls \cup AvailableCalls \cup ExtractCalls \cup LoadCalls
                   \cup LookupCalls
    /\ mu = Unlocked
    /\ req = [q \in Requests |-> NoRequest]
    /\ InitRuns

\* Source.Validate(config) or Destination.Validate(config)
ValidateCall ==
    /\ call.fn = "Validate"
    /\ call.out = Pending
    /\ call' = [call EXCEPT !.out =
                    Validate(CapabilityOf(registry, call.side, call.name), call.config)]
    /\ UNCHANGED <<registry, vp, mu, req>>
    /\ UNCHANGED storeVars
    /\ UNCHANGED runVars

\* Registry.Available()
AvailableCall ==
    /\ call.fn = "Available"
    /\ call.out = Pending
    /\ call' = [call EXCEPT !.out = Available(registry, call.srcOrder, call.dstOrder)]
    /\ UNCHANGED <<registry, vp, mu, req>>
    /\ UNCHANGED storeVars
    /\ UNCHANGED runVars

\* Variant: the producer is started whatever the config
ExtractCallNoValidate ==
    /\ call.fn = "Extract"
    /\ call.pc = "call"
    /\ LET source == registry.sources[call.name]
       IN /\ call' = [call EXCEPT !.pc = "returned",
                                  !.out = [records |-> Channel, err |-> Nil]]
          /\ prod' = [prod EXCEPT ![CallRun] = ProducerAt(0, source.sampleRecords)]
          /\ srcClosed' = [srcClosed EXCEPT ![CallRun] = ~(0 < source.sampleRecords)]
    /\ UNCHANGED <<registry, vp, mu, req>>
    /\ UNCHANGED storeVars
    /\ UNCHANGED <<rpc, rname, ctxDone, cfg, tee, teeClosed, counter, loadErr,
                   received, result>>

\* simpleSource.Extract(ctx, config), lines 152-157: Validate, then
\* produceFakeRecords makes the channel and starts the producer
ExtractCall ==
    /\ call.fn = "Extract"
    /\ call.pc = "call"
    /\ LET source == registry.sources[call.name]
           e == Validate(source, call.config)
       IN IF e # Nil
          THEN /\ call' = [call EXCEPT !.pc = "returned",
                                       !.out = [records |-> Nil, err |-> e]]
               /\ UNCHANGED <<prod, srcClosed>>
          ELSE /\ call' = [call EXCEPT !.pc = "returned",
                                       !.out = [records |-> Channel, err |-> Nil]]
               /\ prod' = [prod EXCEPT ![CallRun] = ProducerAt(0, source.sampleRecords)]
               /\ srcClosed' = [srcClosed EXCEPT ![CallRun] = ~(0 < source.sampleRecords)]
    /\ UNCHANGED <<registry, vp, mu, req>>
    /\ UNCHANGED storeVars
    /\ UNCHANGED <<rpc, rname, ctxDone, cfg, tee, teeClosed, counter, loadErr,
                   received, result>>

\* The caller of Extract receives from the channel it was given:
\* produceFakeRecords, line 208, the send is taken
ExtractReceive ==
    /\ call.fn = "Extract"
    /\ call.pc = "returned"
    /\ call.out.err = Nil
    /\ prod[CallRun].pc = "select"
    /\ prod' = [prod EXCEPT ![CallRun].pc = "sleep"]
    /\ call' = [call EXCEPT !.got = Append(@, Record(prod[CallRun].i))]
    /\ UNCHANGED <<registry, vp, mu, req>>
    /\ UNCHANGED storeVars
    /\ UNCHANGED <<rpc, rname, ctxDone, cfg, srcClosed, tee, teeClosed, counter,
                   loadErr, received, result>>

\* The caller of Load makes the channel it passes: produceFakeRecords with
\* call.supplied records
LoadSupply ==
    /\ call.fn = "Load"
    /\ call.pc = "supply"
    /\ call' = [call EXCEPT !.pc = "call"]
    /\ prod' = [prod EXCEPT ![CallRun] = ProducerAt(0, call.supplied)]
    /\ srcClosed' = [srcClosed EXCEPT ![CallRun] = ~(0 < call.supplied)]
    /\ UNCHANGED <<registry, vp, mu, req>>
    /\ UNCHANGED storeVars
    /\ UNCHANGED <<rpc, rname, ctxDone, cfg, tee, teeClosed, counter, loadErr,
                   received, result>>

\* Variant: the channel is drained whatever the config
LoadCallNoValidate ==
    /\ call.fn = "Load"
    /\ call.pc = "call"
    /\ call' = [call EXCEPT !.pc = "drain"]
    /\ UNCHANGED <<registry, vp, mu, req>>
    /\ UNCHANGED storeVars
    /\ UNCHANGED runVars

\* simpleDestination.Load(ctx, config, records), lines 184-189: Validate,
\* then drainRecords
LoadCall ==
    /\ call.fn = "Load"
    /\ call.pc = "call"
    /\ LET e == Validate(registry.destinations[call.name], call.config)
       IN IF e # Nil
          THEN call' = [call EXCEPT !.pc = "returned", !.out = e]
          ELSE call' = [call EXCEPT !.pc = "drain"]
    /\ UNCHANGED <<registry, vp, mu, req>>
    /\ UNCHANGED storeVars
    /\ UNCHANGED runVars

\* drainRecords, line 221, with produceFakeRecords, line 208: a record is
\* received, and the loop goes on
LoadReceive ==
    /\ call.fn = "Load"
    /\ call.pc = "drain"
    /\ prod[CallRun].pc = "select"
    /\ prod' = [prod EXCEPT ![CallRun].pc = "sleep"]
    /\ call' = [call EXCEPT !.got = Append(@, Record(prod[CallRun].i))]
    /\ UNCHANGED <<registry, vp, mu, req>>
    /\ UNCHANGED storeVars
    /\ UNCHANGED <<rpc, rname, ctxDone, cfg, srcClosed, tee, teeClosed, counter,
                   loadErr, received, result>>

\* drainRecords, lines 221-224: the channel is closed, return nil
LoadClosed ==
    /\ call.fn = "Load"
    /\ call.pc = "drain"
    /\ srcClosed[CallRun]
    /\ call' = [call EXCEPT !.pc = "returned", !.out = Nil]
    /\ UNCHANGED <<registry, vp, mu, req>>
    /\ UNCHANGED storeVars
    /\ UNCHANGED runVars

\* Variant: a name that is not found is registered with no connector
LookupCallRegisters ==
    /\ call.fn \in {"SourceByName", "DestinationByName"}
    /\ call.out = Pending
    /\ call' = [call EXCEPT !.out = IF call.fn = "SourceByName"
                                    THEN SourceByName(registry, call.name)
                                    ELSE DestinationByName(registry, call.name)]
    /\ registry' = IF call.fn = "SourceByName"
                   THEN [registry EXCEPT !.sources =
                            [k \in DOMAIN @ \cup {call.name} |->
                                IF k \in DOMAIN @ THEN @[k] ELSE Nil]]
                   ELSE [registry EXCEPT !.destinations =
                            [k \in DOMAIN @ \cup {call.name} |->
                                IF k \in DOMAIN @ THEN @[k] ELSE Nil]]
    /\ UNCHANGED <<vp, mu, req>>
    /\ UNCHANGED storeVars
    /\ UNCHANGED runVars

\* Registry.SourceByName(name) or Registry.DestinationByName(name)
LookupCall ==
    /\ call.fn \in {"SourceByName", "DestinationByName"}
    /\ call.out = Pending
    /\ call' = [call EXCEPT !.out = IF call.fn = "SourceByName"
                                    THEN SourceByName(registry, call.name)
                                    ELSE DestinationByName(registry, call.name)]
    /\ UNCHANGED <<registry, vp, mu, req>>
    /\ UNCHANGED storeVars
    /\ UNCHANGED runVars

NextMethods ==
    \/ LookupCall
    \/ ValidateCall
    \/ AvailableCall
    \/ ExtractCall
    \/ ExtractReceive
    \/ LoadSupply
    \/ LoadCall
    \/ LoadReceive
    \/ LoadClosed
    \/ ProducerWake(CallRun)

SpecMethods == InitMethods /\ [][NextMethods]_vars

----------------------------------------------------------------------------
(* Every operation of the service and the registry, interleaved *)

ServiceInputs ==
    {SharedInput,
     Config(NameSpaceA, "iceberg", CfgIceberg, "postgres", CfgDb),
     Config(NameA, "oracle", CfgDb, "postgres", CfgDb)}

\* Some of the lookups, and Available for some of the visiting orders
ServiceCalls ==
    {c \in LookupCalls : c.name \in {"iceberg", "oracle"}}
        \cup {c \in AvailableCalls :
                 /\ c.srcOrder[1] = "iceberg" /\ c.srcOrder[2] = "mysql"
                 /\ c.srcOrder[3] = "postgres" /\ c.dstOrder[1] = "mysql"}

InitAll ==
    /\ InitService
    /\ vp = NoPair
    /\ call \in ServiceCalls
    /\ mu = Unlocked
    /\ req = [q \in Requests |-> NoRequest]
    /\ InitRuns

NextAll ==
    \/ \E c \in ServiceInputs : Create(c)
    \/ ListCall
    \/ AvailableCall
    \/ LookupCall
    \/ \E r \in MainRuns : Cancel(r)
    \/ \E r \in MainRuns, name \in RunNames : RunLookup(r, name)
    \/ \E r \in MainRuns : RunResolve(r)
    \/ \E r \in MainRuns : RunExtract(r)
    \/ \E r \in MainRuns : RunTee(r)
    \/ \E r \in MainRuns : LoadValidate(r)
    \/ \E r \in MainRuns : Handoff(r)
    \/ \E r \in MainRuns : ProducerCancel(r)
    \/ \E r \in MainRuns : ProducerWake(r)
    \/ \E r \in MainRuns : TeeFn(r)
    \/ \E r \in MainRuns : Forward(r)
    \/ \E r \in MainRuns : TeeClose(r)
    \/ \E r \in MainRuns : DrainCancel(r)
    \/ \E r \in MainRuns : DrainClosed(r)
    \/ \E r \in MainRuns : RunFinish(r)

SpecAll == InitAll /\ [][NextAll]_vars

----------------------------------------------------------------------------
(* The store under Service.mu: Create, List and getConfig, lock by lock *)

LockInputs ==
    {Config(NameA, "mysql", CfgDb, "postgres", CfgDb),
     Config(NameA, "iceberg", CfgIceberg, "mysql", CfgDb),
     Config(NameA, "mysql", CfgDbNoPassword, "postgres", CfgDb)}

LockNames == {NameA}

\* RLock: a reader enters unless a writer has announced itself; then it is
\* parked until that writer's Unlock
RLock(m, q) ==
    IF m.writer = "none" THEN [m EXCEPT !.readers = @ \cup {q}]
    ELSE [m EXCEPT !.parked = @ \cup {q}]

RUnlock(m, q) == [m EXCEPT !.readers = @ \ {q}]

\* Unlock: the parked readers are let in
Unlock(m) == [writer |-> "none", readers |-> m.parked, parked |-> {}]

\* A request calls Service.Create(cfg)
CreateBegin(q, c) ==
    /\ req[q].pc = "idle"
    /\ req' = [req EXCEPT ![q] = [op |-> "Create", pc |-> "validate", arg |-> c]]
    /\ UNCHANGED <<registry, vp, call, mu>>
    /\ UNCHANGED storeVars
    /\ UNCHANGED runVars

\* Create, lines 434-446: the checks; a failing one is returned
CreateValidate(q) ==
    /\ req[q].pc = "validate"
    /\ IF CreateCheck(registry, req[q].arg) # Nil
       THEN /\ createErr' = CreateCheck(registry, req[q].arg)
            /\ req' = [req EXCEPT ![q] = NoRequest]
       ELSE /\ req' = [req EXCEPT ![q].pc = "lock"]
            /\ UNCHANGED createErr
    /\ UNCHANGED <<registry, vp, call, mu, store, listOut>>
    /\ UNCHANGED runVars

\* Create, line 448: s.mu.Lock() shuts out other writers and new readers
CreateLock(q) ==
    /\ req[q].pc = "lock"
    /\ mu.writer = "none"
    /\ mu' = [mu EXCEPT !.writer = q]
    /\ req' = [req EXCEPT ![q].pc = "lockWait"]
    /\ UNCHANGED <<registry, vp, call>>
    /\ UNCHANGED storeVars
    /\ UNCHANGED runVars

\* Create, line 448: Lock returns once the readers have left
CreateLockAcquire(q) ==
    /\ req[q].pc = "lockWait"
    /\ mu.readers = {}
    /\ req' = [req EXCEPT ![q].pc = "insert"]
    /\ UNCHANGED <<registry, vp, call, mu>>
    /\ UNCHANGED storeVars
    /\ UNCHANGED runVars

\* Create, line 450: s.store[cfg.Name] = cfg
CreateInsert(q) ==
    /\ req[q].pc = "insert"
    /\ store' = StorePut(store, req[q].arg)
    /\ req' = [req EXCEPT ![q].pc = "unlock"]
    /\ UNCHANGED <<registry, vp, call, mu, createErr, listOut>>
    /\ UNCHANGED runVars

\* Create, lines 449 and 451: return nil, and the deferred Unlock
CreateReturn(q) ==
    /\ req[q].pc = "unlock"
    /\ mu' = Unlock(mu)
    /\ createErr' = Nil
    /\ req' = [req EXCEPT ![q] = NoRequest]
    /\ UNCHANGED <<registry, vp, call, store, listOut>>
    /\ UNCHANGED runVars

\* A request calls Service.List()
ListBegin(q) ==
    /\ req[q].pc = "idle"
    /\ req' = [req EXCEPT ![q] = [op |-> "List", pc |-> "rlock"]]
    /\ UNCHANGED <<registry, vp, call, mu>>
    /\ UNCHANGED storeVars
    /\ UNCHANGED runVars

\* A request calls Service.Run(ctx, name), which calls getConfig(name)
GetBegin(q, name) ==
    /\ req[q].pc = "idle"
    /\ req' = [req EXCEPT ![q] = [op |-> "getConfig", pc |-> "rlock", arg |-> name]]
    /\ UNCHANGED <<registry, vp, call, mu>>
    /\ UNCHANGED storeVars
    /\ UNCHANGED runVars

\* Variant: the map is read without s.mu.RLock()
ReadLockNone(q) ==
    /\ req[q].pc = "rlock"
    /\ req' = [req EXCEPT ![q].pc = "read"]
    /\ UNCHANGED <<registry, vp, call, mu>>
    /\ UNCHANGED storeVars
    /\ UNCHANGED runVars

\* List, line 456, and getConfig, line 496: s.mu.RLock()
ReadLock(q) ==
    /\ req[q].pc = "rlock"
    /\ mu' = RLock(mu, q)
    /\ req' = [req EXCEPT ![q].pc = IF mu.writer = "none" THEN "read" ELSE "rlockWait"]
    /\ UNCHANGED <<registry, vp, call>>
    /\ UNCHANGED storeVars
    /\ UNCHANGED runVars

\* RLock returns to a parked reader that Unlock has let in
ReadLockWake(q) ==
    /\ req[q].pc = "rlockWait"
    /\ q \in mu.readers
    /\ req' = [req EXCEPT ![q].pc = "read"]
    /\ UNCHANGED <<registry, vp, call, mu>>
    /\ UNCHANGED storeVars
    /\ UNCHANGED runVars

\* List, lines 459-465: the range over the map and the sort
ListRead(q) ==
    /\ req[q].pc = "read"
    /\ req[q].op = "List"
    /\ \E order \in RangeOrders(store) :
          req' = [req EXCEPT ![q] = [op |-> "List", pc |-> "runlock",
                                     out |-> List(store, order)]]
    /\ UNCHANGED <<registry, vp, call, mu>>
    /\ UNCHANGED storeVars
    /\ UNCHANGED runVars

\* List, lines 457 and 466: return result, and the deferred RUnlock
ListReturn(q) ==
    /\ req[q].pc = "runlock"
    /\ req[q].op = "List"
    /\ mu' = RUnlock(mu, q)
    /\ listOut' = req[q].out
    /\ req' = [req EXCEPT ![q] = NoRequest]
    /\ UNCHANGED <<registry, vp, call, store, createErr>>
    /\ UNCHANGED runVars

\* getConfig, line 498: cfg, ok := s.store[name]
GetRead(q) ==
    /\ req[q].pc = "read"
    /\ req[q].op = "getConfig"
    /\ req' = [req EXCEPT ![q] =
                  [op |-> "getConfig", pc |-> "runlock", arg |-> req[q].arg,
                   out |-> IF req[q].arg \in DOMAIN store
                           THEN [cfg |-> store[req[q].arg], ok |-> TRUE]
                           ELSE [cfg |-> NoConfig, ok |-> FALSE]]]
    /\ UNCHANGED <<registry, vp, call, mu>>
    /\ UNCHANGED storeVars
    /\ UNCHANGED runVars

\* getConfig, lines 497 and 499: return cfg, ok, and the deferred RUnlock
GetReturn(q) ==
    /\ req[q].pc = "runlock"
    /\ req[q].op = "getConfig"
    /\ mu' = RUnlock(mu, q)
    /\ req' = [req EXCEPT ![q] = NoRequest]
    /\ UNCHANGED <<registry, vp, call>>
    /\ UNCHANGED storeVars
    /\ UNCHANGED runVars

NextLock ==
    \/ \E q \in Requests, c \in LockInputs : CreateBegin(q, c)
    \/ \E q \in Requests : CreateValidate(q)
    \/ \E q \in Requests : CreateLock(q)
    \/ \E q \in Requests : CreateLockAcquire(q)
    \/ \E q \in Requests : CreateInsert(q)
    \/ \E q \in Requests : CreateReturn(q)
    \/ \E q \in Requests : ListBegin(q)
    \/ \E q \in Requests, name \in LockNames : GetBegin(q, name)
    \/ \E q \in Requests : ReadLock(q)
    \/ \E q \in Requests : ReadLockWake(q)
    \/ \E q \in Requests : ListRead(q)
    \/ \E q \in Requests : ListReturn(q)
    \/ \E q \in Requests : GetRead(q)
    \/ \E q \in Requests : GetReturn(q)

SpecLock == Init /\ [][NextLock]_vars

----------------------------------------------------------------------------
(* Fairness: the Go scheduler runs every goroutine that can take a step *)

FairSpec ==
    /\ Spec
    /\ \A r \in MainRuns :
          /\ WF_vars(RunResolve(r) \/ RunExtract(r) \/ RunTee(r) \/ LoadValidate(r)
                     \/ Forward(r) \/ DrainCancel(r) \/ DrainClosed(r) \/ RunFinish(r))
          /\ WF_vars(ProducerStep(r))
          /\ WF_vars(TeeStep(r))

----------------------------------------------------------------------------
(* Run results *)

Found(r) == cfg[r] # NoConfig

\* Records the producer has handed to the tee
Handed(r) == IF prod[r].pc = "sleep" THEN prod[r].i + 1 ELSE prod[r].i

\* C1: a run of a stored pipeline whose context is never cancelled returns
\* records = 50 for a mysql, postgres or sqlserver source and records = 30
\* for an iceberg source, with an empty error.
C1_CountFidelity ==
    \A r \in Runs :
        (rpc[r] = "done" /\ Found(r) /\ ~ctxDone[r]) =>
            /\ result[r].Error = <<>>
            /\ cfg[r].SourceType \in {"mysql", "postgres", "sqlserver"}
                   => result[r].Records = 50
            /\ cfg[r].SourceType = "iceberg" => result[r].Records = 30

C1_Witness ==
    \E r \in Runs :
        /\ rpc[r] = "done" /\ Found(r) /\ ~ctxDone[r]
        /\ cfg[r].SourceType = "iceberg"
        /\ result[r].Records = 30

\* C3 (as claimed): a run whose context is cancelled before all n records
\* were forwarded ends with load's cancellation failure and a non-empty error.
C3_CancelYieldsError ==
    \A r \in Runs :
        (rpc[r] = "done" /\ Found(r) /\ ctxDone[r]
            /\ Len(received[r]) < prod[r].records) =>
            /\ loadErr[r] = ContextCanceled
            /\ result[r].Error # <<>>

\* C4 (as claimed): a cancelled run that forwarded k < n records reports at
\* most k records.
C4_CountOnlyForwarded ==
    \A r \in Runs :
        (rpc[r] = "done" /\ Found(r) /\ ctxDone[r]
            /\ Len(received[r]) < prod[r].records) =>
            result[r].Records <= Len(received[r])

\* C5: under weak fairness of the caller, the producer and the tee, every
\* call of Run returns a Result, whatever the name and whenever the
\* context is cancelled.
C5_RunReturns ==
    \A r \in MainRuns : (rpc[r] # "idle") ~> (rpc[r] = "done" /\ result[r] # NoResult)

C5_Witness ==
    \E r \in Runs :
        /\ rpc[r] = "done" /\ Found(r) /\ ctxDone[r]
        /\ result[r].Error = <<"context canceled">>
        /\ Len(received[r]) > 0 /\ Len(received[r]) < prod[r].records

\* C6: what load has received is always the first records of the source, in
\* order (ids 1, 2, 3, ...), and all of them when the run ends uncancelled.
C6_OrderPreserved ==
    \A r \in Runs :
        /\ Len(received[r]) <= prod[r].records
        /\ \A k \in 1..Len(received[r]) :
              received[r][k] = [id |-> k, payload |-> <<"record-", k>>]
        /\ (rpc[r] = "done" /\ Found(r) /\ ~ctxDone[r])
              => Len(received[r]) = prod[r].records

C6_Witness ==
    \E r \in Runs :
        /\ rpc[r] = "done" /\ ~ctxDone[r]
        /\ Len(received[r]) = 50
        /\ received[r][50].id = 50

\* C7: the producer is never more than one record ahead of load, and the tee
\* waits for the next record only when it holds none.
C7_BackPressure ==
    \A r \in Runs :
        /\ Handed(r) - Len(received[r]) \in {0, 1}
        /\ tee[r].pc \in {"fn", "send"} <=> Handed(r) = Len(received[r]) + 1

C7_Witness ==
    \E r \in Runs :
        /\ Handed(r) = Len(received[r]) + 1
        /\ Len(received[r]) >= 2
        /\ prod[r].pc = "sleep"

----------------------------------------------------------------------------
(* Store *)

\* C2: a step after which the last Create call stands rejected (blank name,
\* unknown connector, invalid pairing or missing field) leaves the store as
\* it was, and no List result holds a definition that Create rejects.
C2_NoPartialWrites ==
    [][createErr' # Nil =>
          /\ store' = store
          /\ \A order \in RangeOrders(store') :
                \A i \in DOMAIN List(store', order) :
                    CreateCheck(registry', List(store', order)[i]) = Nil]_vars

C2_Witness ==
    /\ createErr = Err(<<"missing required config ", "password">>)
    /\ NameA \in DOMAIN store
    /\ listOut # <<>>

InvalidPairingErrors ==
    {Err(<<"invalid connector pairing">>), Err(<<"iceberg cannot be a destination">>)}

\* C10 (as claimed): Create with sourceType = destType = "iceberg" and a
\* proper name returns an invalid-pairing error, and the definition is in no
\* List result afterwards.
C10_IcebergPairRejected ==
    [][\A c \in StoreInputs :
          (Create(c) /\ c.SourceType = "iceberg" /\ c.DestType = "iceberg"
              /\ validatePipelineName(c.Name) = Nil) =>
              /\ createErr' \in InvalidPairingErrors
              /\ \A order \in RangeOrders(store') :
                    \A i \in DOMAIN List(store', order) : List(store', order)[i] # c]_vars

----------------------------------------------------------------------------
(* Pairing rule *)

\* C8 (as claimed): ValidateConnectorPair fails for every destination
\* descriptor named "iceberg", whatever the source descriptor.
C8_IcebergNeverDestination ==
    (vp.err # Pending /\ vp.dst # Nil /\ vp.dst.Name = "iceberg") => vp.err # Nil

----------------------------------------------------------------------------
(* Order of the checks of Create *)

\* What each step of Create finds in a definition, taken on its own:
\* name, source, destination, pairing, source config, destination config
CreateSteps(r, c) ==
    LET s == SourceByName(r, c.SourceType)
        d == DestinationByName(r, c.DestType)
    IN << validatePipelineName(c.Name),
          s.err,
          d.err,
          IF s.err = Nil /\ d.err = Nil
              THEN ValidateConnectorPair(Info(s.val), Info(d.val)) ELSE Nil,
          IF s.err = Nil THEN Validate(s.val, c.SourceConfig) ELSE Nil,
          IF d.err = Nil THEN Validate(d.val, c.DestConfig) ELSE Nil >>

FirstFailure(steps) ==
    IF \A i \in DOMAIN steps : steps[i] = Nil THEN Nil
    ELSE steps[CHOOSE i \in DOMAIN steps :
                   /\ steps[i] # Nil
                   /\ \A j \in DOMAIN steps : j < i => steps[j] = Nil]

----------------------------------------------------------------------------
(* Overwrite *)

\* C12: after a Create call that succeeds, every List result holds exactly
\* one entry under the name of the call, and that entry is the definition of
\* the call, whatever was stored under the name before; every other name is
\* stored or not as it was, with the entry it had.
C12_Overwrite ==
    [][createErr' = Nil =>
          \A c \in StoreInputs :
              Create(c) =>
                  /\ \A order \in RangeOrders(store') :
                        LET l == List(store', order)
                        IN /\ Cardinality({i \in DOMAIN l : l[i].Name = c.Name}) = 1
                           /\ \A i \in DOMAIN l : l[i].Name = c.Name => l[i] = c
                  /\ \A n \in (DOMAIN store \cup DOMAIN store') \ {c.Name} :
                        /\ n \in DOMAIN store
                        /\ n \in DOMAIN store'
                        /\ store'[n] = store[n]]_vars

\* an earlier List result shows the definition that a later Create replaced,
\* next to an entry under another name
C12_Witness ==
    /\ createErr = Nil
    /\ NameSpaceA \in DOMAIN store
    /\ NameA \in DOMAIN store
    /\ \E i \in DOMAIN listOut :
          /\ listOut[i].Name = NameA
          /\ listOut[i].SourceConfig = CfgDb
          /\ store[NameA].SourceConfig = CfgDbOther
    /\ \E i \in DOMAIN listOut :
          /\ listOut[i].Name = NameSpaceA
          /\ listOut[i] = store[NameSpaceA]

----------------------------------------------------------------------------
(* Run of a name that is not stored *)

\* C13: a call of Run with a name that is not in the store returns, in one
\* step that leaves the store and the Create and List results as they were,
\* the Result with records = 0 and error "pipeline not found"; no connector
\* is resolved for it, and it has no producer, no tee and no record received,
\* then and ever after.
C13_NotFound ==
    /\ [][\A r \in Runs :
             (rpc[r] = "idle" /\ rpc'[r] # "idle" /\ rname'[r] \notin DOMAIN store) =>
                 /\ rpc'[r] = "done"
                 /\ result'[r] = [PipelineName |-> rname'[r], Records |-> 0,
                                  Error |-> <<"pipeline not found">>]
                 /\ store' = store /\ createErr' = createErr /\ listOut' = listOut
                 /\ cfg'[r] = NoConfig]_vars
    /\ [](\A r \in Runs :
             (rpc[r] # "idle" /\ ~Found(r)) =>
                 /\ rpc[r] = "done"
                 /\ result[r].Records = 0
                 /\ result[r].Error = <<"pipeline not found">>
                 /\ prod[r] = NoProducer /\ tee[r] = NoTee
                 /\ ~srcClosed[r] /\ ~teeClosed[r]
                 /\ counter[r] = 0 /\ received[r] = <<>>)

\* the name is stored by a later Create, and the Result stays as returned
C13_Witness ==
    \E r \in Runs :
        /\ rpc[r] = "done" /\ ~Found(r)
        /\ rname[r] = NameSpaceA
        /\ NameA \in DOMAIN store
        /\ NameSpaceA \in DOMAIN store
        /\ result[r].Error = <<"pipeline not found">>

----------------------------------------------------------------------------
(* Validation contract *)

\* The required fields of the two kinds of connector, in contract order
RelationalContract == <<"host", "port", "user", "password", "database">>
IcebergContract == <<"catalog", "table", "warehouse">>

ContractOf(side, name) ==
    IF name = "iceberg" THEN IcebergContract ELSE RelationalContract

\* Positions of the contract whose field is absent or empty in the config
Lacking(contract, config) ==
    {i \in DOMAIN contract : contract[i] \notin DOMAIN config \/ config[contract[i]] = ""}

\* C14: Validate succeeds exactly when every field of the connector's
\* contract (host, port, user, password, database for the relational
\* connectors; catalog, table, warehouse for iceberg) is present and not
\* empty, and otherwise fails with the missing-field error that names the
\* first absent or empty field in contract order.
C14_ValidateContract ==
    (call.fn = "Validate" /\ call.out # Pending) =>
        LET contract == ContractOf(call.side, call.name)
            lacking == Lacking(contract, call.config)
        IN /\ call.out = Nil <=> lacking = {}
           /\ lacking # {} =>
                 \E i \in lacking :
                     /\ \A j \in lacking : i <= j
                     /\ call.out = Err(<<"missing required config ", contract[i]>>)

\* password is present and empty, database is absent: password is named
C14_Witness ==
    /\ call.fn = "Validate" /\ call.out = Err(<<"missing required config ", "password">>)
    /\ call.side = "destination" /\ call.name = "sqlserver"
    /\ "password" \in DOMAIN call.config
    /\ "database" \notin DOMAIN call.config

----------------------------------------------------------------------------
(* List *)

\* A slice that holds the entry of every name of st once and nothing else,
\* each name less than the next
SortedListing(l, st) ==
    /\ Len(l) = Cardinality(DOMAIN st)
    /\ \A n \in DOMAIN st : \E i \in DOMAIN l : l[i].Name = n /\ l[i] = st[n]
    /\ \A i \in DOMAIN l : \A j \in DOMAIN l : i < j => StrLess(l[i].Name, l[j].Name)

\* C15: after any sequence of Create calls, whatever the order in which the
\* map is visited, List returns exactly one definition per stored name, the
\* stored one, in strictly ascending order of name.
C15_ListSorted ==
    /\ [](\A order \in RangeOrders(store) : SortedListing(List(store, order), store))
    /\ [][listOut' # listOut => SortedListing(listOut', store')]_vars

C15_Witness ==
    /\ Len(listOut) = 2
    /\ listOut[1].Name = NameSpaceA
    /\ listOut[2].Name = NameA
    /\ listOut[2] = store[NameA]

----------------------------------------------------------------------------
(* Registry listing *)

\* C16: whatever the order in which the two maps are visited, Available
\* returns seven descriptors, no two of them with the same name and kind:
\* one source descriptor each for mysql, postgres, sqlserver and iceberg and
\* one destination descriptor each for mysql, postgres and sqlserver, each
\* the descriptor of the registered connector.
C16_AvailableUnique ==
    (call.fn = "Available" /\ call.out # Pending) =>
        LET l == call.out
        IN /\ Len(l) = 7
           /\ \A i \in DOMAIN l : \A j \in DOMAIN l :
                 i # j => <<l[i].Name, l[i].Type>> # <<l[j].Name, l[j].Type>>
           /\ {l[i].Name : i \in {k \in DOMAIN l : l[k].Type = "source"}}
                 = {"mysql", "postgres", "sqlserver", "iceberg"}
           /\ {l[i].Name : i \in {k \in DOMAIN l : l[k].Type = "destination"}}
                 = {"mysql", "postgres", "sqlserver"}
           /\ \A cap \in Capabilities(registry) :
                 \E i \in DOMAIN l : l[i] = Info(CapabilityOf(registry, cap[1], cap[2]))

\* mysql is listed once as a source and once as a destination
C16_Witness ==
    /\ call.fn = "Available" /\ call.out # Pending
    /\ \E i \in DOMAIN call.out : \E j \in DOMAIN call.out :
          /\ call.out[i].Name = "mysql" /\ call.out[i].Type = "source"
          /\ call.out[j].Name = "mysql" /\ call.out[j].Type = "destination"
          /\ i < j

----------------------------------------------------------------------------
(* Concurrent runs *)

\* Everything one call of Run owns
RunState(r) ==
    <<rpc[r], rname[r], ctxDone[r], cfg[r], prod[r], srcClosed[r], tee[r],
      teeClosed[r], counter[r], loadErr[r], received[r], result[r]>>

\* C17: of two runs of the same pipeline, no step of one changes anything of
\* the other; the counter of each run counts the records its own producer
\* handed over and load of each run receives those records only; and a run
\* that is not cancelled returns records = 30, the n of the iceberg source of
\* the pipeline, and an empty error, whether or not the other run is cancelled.
C17_RunsIndependent ==
    /\ [][\A r \in Runs : \A q \in Runs \ {r} :
             RunState(r)' # RunState(r) => RunState(q)' = RunState(q)]_vars
    /\ [](\A r \in Runs :
             /\ counter[r] \in {Handed(r) - 1, Handed(r)}
             /\ counter[r] - Len(received[r]) \in {0, 1}
             /\ \A k \in 1..Len(received[r]) : received[r][k] = Record(k - 1)
             /\ (rpc[r] = "done" /\ Found(r) /\ ~ctxDone[r]) =>
                   /\ cfg[r].SourceType = "iceberg"
                   /\ result[r].Records = 30
                   /\ result[r].Error = <<>>)

\* both runs of "a" have returned 30 records, neither cancelled
C17_Witness ==
    /\ \A r \in Runs :
          /\ rpc[r] = "done" /\ Found(r) /\ ~ctxDone[r]
          /\ rname[r] = NameA
          /\ result[r].Records = 30 /\ result[r].Error = <<>>

----------------------------------------------------------------------------
(* Cancellation *)

\* C18 (as claimed): once the context of a run is cancelled, its producer
\* hands over no further record.
C18_CancelPriority ==
    [][\A r \in Runs : ctxDone[r] => Handed(r)' = Handed(r)]_vars

Terminated(r) ==
    /\ prod[r].pc \in {"none", "done"}
    /\ tee[r].pc \in {"none", "done"}

\* C19 (as claimed): once the context of a run is cancelled, its producer
\* and its tee both come to an end, the producer having closed its channel
\* and the tee its output.
C19_TasksTerminate ==
    \A r \in MainRuns :
        ctxDone[r] ~> (/\ Terminated(r)
                       /\ prod[r].pc = "done" => srcClosed[r]
                       /\ tee[r].pc = "done" => teeClosed[r])

----------------------------------------------------------------------------
(* Locking discipline of the store *)

\* Inside the critical section of List or getConfig, of Create
InRead(q) == req[q].pc \in {"read", "runlock"}
InWrite(q) == req[q].pc \in {"insert", "unlock"}

\* C20: a Create that is validating holds no lock, and it has the writer
\* lock exactly from the return of Lock, through the insert, to its return;
\* List and getConfig hold the reader lock and never the writer lock; no
\* reader is inside its critical section while a Create is inside its own,
\* no two Creates are inside at once, and the store changes only by the
\* insert of a Create that holds the writer lock with no reader inside.
C20_LockDiscipline ==
    /\ [](\A q \in Requests :
             /\ req[q].pc \in {"idle", "validate", "lock"} =>
                   /\ mu.writer # q
                   /\ q \notin mu.readers \cup mu.parked
             /\ mu.writer = q => req[q].pc \in {"lockWait", "insert", "unlock"}
             /\ InWrite(q) => mu.writer = q /\ mu.readers = {}
             /\ InRead(q) => q \in mu.readers /\ mu.writer # q
             /\ InRead(q) => \A w \in Requests : ~InWrite(w)
             /\ InWrite(q) => \A w \in Requests \ {q} : ~InWrite(w))
    /\ [][store' # store =>
             \E q \in Requests :
                 /\ req[q].pc = "insert" /\ req'[q].pc = "unlock"
                 /\ mu.writer = q
                 /\ \A p \in Requests : ~InRead(p)]_vars

\* a List and a getConfig are inside their critical sections at once, and a
\* Create that has called Lock waits for them
C20_Witness ==
    \E q1 \in Requests : \E q2 \in Requests : \E q3 \in Requests :
        /\ InRead(q1) /\ req[q1].op = "List"
        /\ InRead(q2) /\ req[q2].op = "getConfig"
        /\ req[q3].pc = "lockWait" /\ mu.writer = q3
        /\ NameA \in DOMAIN store

----------------------------------------------------------------------------
(* Tee *)

\* What the tee does with the records it holds: each record received is
\* counted once before it is sent on, the record sent on is the one received,
\* and the output is closed only after the input was closed and everything
\* received was sent on
TeeCountsOnce ==
    \A r \in Runs :
        /\ counter[r] = Handed(r) - (IF tee[r].pc = "fn" THEN 1 ELSE 0)
        /\ Len(received[r]) = counter[r] - (IF tee[r].pc = "send" THEN 1 ELSE 0)
        /\ tee[r].pc \in {"fn", "send"} => tee[r].record = Record(Handed(r) - 1)
        /\ \A k \in 1..Len(received[r]) : received[r][k] = Record(k - 1)
        /\ teeClosed[r] => srcClosed[r] /\ Len(received[r]) = Handed(r)

\* C21 (as claimed): every record the tee receives is counted exactly once
\* and is then forwarded unchanged, nothing else is counted, and the output
\* is closed exactly when the input is closed and the last record received
\* has been forwarded.
C21_TeeExactlyOnce ==
    /\ []TeeCountsOnce
    /\ \A r \in MainRuns :
          (tee[r].pc \in {"fn", "send"}) ~> (tee[r].pc \in {"range", "done"})
    /\ \A r \in MainRuns :
          (srcClosed[r] /\ tee[r].pc = "range") ~> teeClosed[r]

----------------------------------------------------------------------------
(* Stages of Run *)

\* The three checks of the Resolve stage on a definition, each on its own:
\* source lookup, destination lookup, pairing
ResolveSteps(r, c) ==
    LET s == SourceByName(r, c.SourceType)
        d == DestinationByName(r, c.DestType)
    IN << s.err,
          d.err,
          IF s.err = Nil /\ d.err = Nil
              THEN ValidateConnectorPair(Info(s.val), Info(d.val)) ELSE Nil >>

SampleSize(name) == IF name = "iceberg" THEN 30 ELSE 50

\* C23: Extract called with a config that lacks a required field returns the
\* missing-field error and no channel, and no producer is started; before it
\* has validated, no producer exists; called with a valid config it returns
\* a channel that, never cancelled, delivers records 1, 2, ... and is closed
\* after exactly 50 of them (mysql, postgres, sqlserver) or 30 (iceberg).
C23_ExtractValidates ==
    call.fn = "Extract" =>
        LET contract == ContractOf("source", call.name)
            lacking == Lacking(contract, call.config)
        IN /\ call.pc = "call" => prod[CallRun] = NoProducer
           /\ (call.pc = "returned" /\ lacking # {}) =>
                 /\ \E i \in lacking :
                       /\ \A j \in lacking : i <= j
                       /\ call.out.err = Err(<<"missing required config ", contract[i]>>)
                 /\ call.out.records = Nil
                 /\ prod[CallRun] = NoProducer
                 /\ ~srcClosed[CallRun]
                 /\ call.got = <<>>
           /\ (call.pc = "returned" /\ lacking = {}) =>
                 /\ call.out.err = Nil
                 /\ call.out.records # Nil
                 /\ prod[CallRun] # NoProducer
                 /\ Len(call.got) <= SampleSize(call.name)
                 /\ \A k \in 1..Len(call.got) :
                       call.got[k] = [id |-> k, payload |-> <<"record-", k>>]
                 /\ srcClosed[CallRun] <=> (Len(call.got) = SampleSize(call.name)
                                              /\ prod[CallRun].pc = "done")

\* the sqlserver source was given a config without password: nothing started
C23_Witness ==
    /\ call.fn = "Extract" /\ call.pc = "returned"
    /\ call.name = "sqlserver"
    /\ call.out.err = Err(<<"missing required config ", "password">>)
    /\ prod[CallRun] = NoProducer

\* C24: Load called with a config that lacks a required field returns the
\* missing-field error and nothing has been received from its channel; with a
\* valid config and no cancellation it returns nil, and only when the channel
\* is closed and every record sent on it has been received.
C24_LoadValidates ==
    call.fn = "Load" =>
        LET contract == ContractOf("destination", call.name)
            lacking == Lacking(contract, call.config)
        IN /\ call.pc \in {"supply", "call"} => call.got = <<>> /\ Handed(CallRun) = 0
           /\ (call.pc = "returned" /\ lacking # {}) =>
                 /\ \E i \in lacking :
                       /\ \A j \in lacking : i <= j
                       /\ call.out = Err(<<"missing required config ", contract[i]>>)
                 /\ call.got = <<>>
                 /\ Handed(CallRun) = 0
           /\ (call.pc = "returned" /\ lacking = {}) =>
                 /\ call.out = Nil
                 /\ srcClosed[CallRun]
                 /\ Len(call.got) = call.supplied
                 /\ \A k \in 1..Len(call.got) :
                       call.got[k] = [id |-> k, payload |-> <<"record-", k>>]
           /\ call.pc = "drain" => lacking = {} /\ Len(call.got) = Handed(CallRun)

\* a channel of two records was drained to its close
C24_Witness ==
    /\ call.fn = "Load" /\ call.pc = "returned"
    /\ call.out = Nil
    /\ call.supplied = 2
    /\ Len(call.got) = 2

----------------------------------------------------------------------------
(* Lookup by name *)

\* C25: SourceByName succeeds exactly for mysql, postgres, sqlserver and
\* iceberg, DestinationByName exactly for mysql, postgres and sqlserver;
\* every other lookup, DestinationByName("iceberg") among them, returns nil
\* and the unknown-connector error of its kind with the name; a successful
\* lookup returns a connector whose descriptor has the name asked for and
\* the kind of the lookup.
C25_LookupByKind ==
    (call.fn \in {"SourceByName", "DestinationByName"} /\ call.out # Pending) =>
        LET isSource == call.fn = "SourceByName"
            registered == IF isSource THEN {"mysql", "postgres", "sqlserver", "iceberg"}
                          ELSE {"mysql", "postgres", "sqlserver"}
        IN /\ call.out.err = Nil <=> call.name \in registered
           /\ call.out.err # Nil =>
                 /\ call.out.val = Nil
                 /\ call.out.err = Err(<<IF isSource THEN "unknown source connector "
                                         ELSE "unknown destination connector ", call.name>>)
           /\ call.out.err = Nil =>
                 /\ Info(call.out.val).Name = call.name
                 /\ Info(call.out.val).Type = IF isSource THEN "source" ELSE "destination"

C25_Witness ==
    /\ call.fn = "DestinationByName"
    /\ call.name = "iceberg"
    /\ call.out # Pending
    /\ call.out.err = Err(<<"unknown destination connector ", "iceberg">>)

----------------------------------------------------------------------------
(* Frames *)

\* C26: whatever is called (Available, SourceByName, DestinationByName,
\* Create, List, Run, in any interleaving), the registry stays the one
\* NewRegistry built, and every descriptor Available returns is the one its
\* connector was registered with.
C26_RegistryReadOnly ==
    /\ [][registry' = registry]_vars
    /\ [](/\ registry = NewRegistry
          /\ (call.fn = "Available" /\ call.out # Pending) =>
                \A i \in DOMAIN call.out :
                    \E cap \in Capabilities(NewRegistry) :
                        call.out[i] = Info(CapabilityOf(NewRegistry, cap[1], cap[2])))

\* a method call, a Create, a List and a cancelled Run have all returned
C26_Witness ==
    /\ call.out # Pending
    /\ NameA \in DOMAIN store
    /\ listOut # <<>>
    /\ \E r \in Runs : rpc[r] = "done" /\ Found(r) /\ ctxDone[r]

\* C27: a step that returns a List result, a step of a run and a step of a
\* registry call leave the store as it was; the store changes only by a
\* Create that returns nil, which puts its definition in; no name ever
\* leaves the store.
C27_StoreFrame ==
    [][/\ listOut' # listOut => store' = store
       /\ call' # call => store' = store
       /\ \A r \in Runs : RunState(r)' # RunState(r) => store' = store
       /\ store' # store =>
             /\ createErr' = Nil
             /\ \E c \in ServiceInputs :
                   CreateCheck(registry, c) = Nil /\ store' = StorePut(store, c)
       /\ DOMAIN store \subseteq DOMAIN store'
       /\ \A n \in DOMAIN store : store'[n] # store[n] => createErr' = Nil]_vars

\* after a List and a Run that was not found, the store holds what the two
\* successful Creates put in
C27_Witness ==
    /\ DOMAIN store = {NameA, NameSpaceA}
    /\ Len(listOut) = 1
    /\ \E r \in Runs : rpc[r] = "done" /\ ~Found(r) /\ rname[r] = NameSpaceA

----------------------------------------------------------------------------
(* What the store holds *)

\* C28: every definition in the store is held under its own name, the name
\* is not blank once trimmed, its source and its destination are registered,
\* the pairing rule accepts the two descriptors, and each connector's
\* Validate accepts its config.
C28_StoreValid ==
    \A n \in DOMAIN store :
        LET c == store[n]
            s == SourceByName(registry, c.SourceType)
            d == DestinationByName(registry, c.DestType)
        IN /\ c.Name = n
           /\ TrimSpace(n) # <<>>
           /\ s.err = Nil
           /\ d.err = Nil
           /\ ValidateConnectorPair(Info(s.val), Info(d.val)) = Nil
           /\ Validate(s.val, c.SourceConfig) = Nil
           /\ Validate(d.val, c.DestConfig) = Nil

\* two definitions are stored and the last Create was refused for the config
\* of its destination
C28_Witness ==
    /\ DOMAIN store = {NameA, NameSpaceA}
    /\ createErr = Err(<<"missing required config ", "database">>)

\* C29: a run that found its pipeline in the store passes Resolve, Extract
\* and the validation of Load (the definition it holds passes every check
\* of Create, and the run is past "extract" or "load" only with a producer,
\* resp. without an error of validation), its Result carries "" or the
\* error of the cancelled context, and "pipeline not found" is the error
\* only of a run whose name was not in the store when it was looked up.
C29_StoredRunErrors ==
    /\ [](\A r \in Runs :
            /\ Found(r) =>
                  /\ CreateCheck(registry, cfg[r]) = Nil
                  /\ rpc[r] \in {"tee", "load", "drain", "finish", "done"} =>
                        prod[r] # NoProducer
                  /\ rpc[r] \in {"finish", "done"} =>
                        loadErr[r] \in {Nil, ContextCanceled}
                  /\ rpc[r] = "done" =>
                        result[r].Error \in {<<>>, ErrorText(ContextCanceled)}
            /\ (rpc[r] = "done" /\ result[r].Error = <<"pipeline not found">>) =>
                  ~Found(r))
    /\ [][\A r \in Runs :
              (rpc[r] = "idle" /\ rpc'[r] = "done") =>
                  /\ rname'[r] \notin DOMAIN store
                  /\ result'[r].Error = <<"pipeline not found">>]_vars

\* a run of a stored pipeline has ended with the error of the cancelled
\* context after some records were loaded
C29_Witness ==
    \E r \in Runs :
        /\ rpc[r] = "done"
        /\ Found(r)
        /\ result[r].Error = <<"context canceled">>
        /\ result[r].Records > 0

\* C30: the key of an entry is the name as it was given, whitespace
\* included, and no key is blank once trimmed; a Create that changes the
\* store puts a definition whose trimmed name is not blank under exactly its
\* untrimmed name and leaves every other entry, the one under the trimmed
\* name included, as it was; a Run finds a definition exactly when the
\* string it was given is a key, and then the definition of that very name.
C30_UntrimmedKeys ==
    /\ [](\A n \in DOMAIN store : store[n].Name = n /\ TrimSpace(n) # <<>>)
    /\ [][store' # store =>
              \E c \in RunInputs :
                  /\ validatePipelineName(c.Name) = Nil
                  /\ c.Name \in DOMAIN store'
                  /\ store'[c.Name] = c
                  /\ DOMAIN store' = DOMAIN store \cup {c.Name}
                  /\ \A n \in DOMAIN store' :
                        n # c.Name => n \in DOMAIN store /\ store'[n] = store[n]]_vars
    /\ [][\A r \in Runs :
              (rpc[r] = "idle" /\ rpc'[r] # "idle") =>
                  /\ rpc'[r] = "resolve" <=> rname'[r] \in DOMAIN store
                  /\ rpc'[r] = "resolve" =>
                        cfg'[r] = store[rname'[r]] /\ cfg'[r].Name = rname'[r]
                  /\ rpc'[r] # "resolve" =>
                        result'[r].Error = <<"pipeline not found">>]_vars

\* " a" and "a" are two entries with different definitions, and the run of
\* " a" holds the definition stored under " a"
C30_Witness ==
    /\ DOMAIN store = {NameA, NameSpaceA}
    /\ store[NameA].SourceType # store[NameSpaceA].SourceType
    /\ \E r \in Runs :
          /\ rname[r] = NameSpaceA
          /\ Found(r)
          /\ cfg[r] = store[NameSpaceA]
          /\ TrimSpace(cfg[r].Name) = NameA

----------------------------------------------------------------------------
(* The counter of a run *)

\* C31: in every state of a run the counter is the number of records the
\* destination has received, or one more, and one more exactly while the tee
\* holds a counted record it has not sent; the counter is at most the number
\* of records of the source; no step makes it smaller.
C31_CounterBound ==
    /\ [](\A r \in Runs :
            /\ counter[r] - Len(received[r]) \in {0, 1}
            /\ counter[r] - Len(received[r]) = 1 <=> tee[r].pc = "send"
            /\ counter[r] <= prod[r].records
            /\ Found(r) => counter[r] <= SampleSize(cfg[r].SourceType))
    /\ [][\A r \in Runs : counter'[r] >= counter[r]]_vars

\* the last record of an iceberg source is counted and not yet received
C31_Witness ==
    \E r \in Runs :
        /\ Found(r)
        /\ cfg[r].SourceType = "iceberg"
        /\ counter[r] = 30
        /\ Len(received[r]) = 29
        /\ tee[r].pc = "send"

----------------------------------------------------------------------------
(* The goroutines of a run that was not cancelled *)

\* C33: when Load has returned nil and the context is not cancelled, the
\* producer is past its loop and has closed its channel, the tee has
\* received, counted and forwarded every record of the source, has closed
\* its output and has ended; no goroutine of the run is at a send or a
\* receive.
C33_CleanCompletion ==
    \A r \in Runs :
        (Found(r) /\ rpc[r] \in {"finish", "done"} /\ loadErr[r] = Nil
            /\ ~ctxDone[r]) =>
            /\ prod[r].pc = "done"
            /\ prod[r].i = prod[r].records
            /\ srcClosed[r]
            /\ tee[r].pc = "done"
            /\ tee[r].record = NoRecord
            /\ teeClosed[r]
            /\ counter[r] = prod[r].records
            /\ Len(received[r]) = prod[r].records
            /\ prod[r].records = SampleSize(cfg[r].SourceType)

\* Load has just returned nil from a run of a mysql source that nobody
\* cancelled
C33_Witness ==
    \E r \in Runs :
        /\ rpc[r] = "finish"
        /\ loadErr[r] = Nil
        /\ ~ctxDone[r]
        /\ Found(r)
        /\ cfg[r].SourceType = "mysql"
        /\ Len(received[r]) = 50

----------------------------------------------------------------------------
(* The definition a run holds *)

\* C34: a run takes the definition that is in the store under its name at
\* the step of its lookup and holds it unchanged from then on, whatever
\* Create puts in the store meanwhile; its producer sends the number of
\* records of the source of that definition, and a run that nobody
\* cancelled returns that number, also when the store by then holds another
\* definition under the name.
C34_RunSnapshot ==
    /\ [][\A r \in Runs :
              /\ Found(r) => cfg'[r] = cfg[r]
              /\ (~Found(r) /\ Found(r)') =>
                    /\ rname'[r] \in DOMAIN store
                    /\ cfg'[r] = store[rname'[r]]]_vars
    /\ [](\A r \in Runs :
            /\ prod[r] # NoProducer =>
                  prod[r].records = SampleSize(cfg[r].SourceType)
            /\ (Found(r) /\ rpc[r] = "done" /\ ~ctxDone[r]) =>
                  /\ result[r].Records = SampleSize(cfg[r].SourceType)
                  /\ result[r].Error = <<>>)

\* a run that started on the mysql source has returned 50 records while
\* the store holds an iceberg source under the same name
C34_Witness ==
    \E r \in Runs :
        /\ Found(r)
        /\ rpc[r] = "done"
        /\ ~ctxDone[r]
        /\ cfg[r].SourceType = "mysql"
        /\ store[rname[r]].SourceType = "iceberg"
        /\ result[r].Records = 50

====
